---- MODULE Spec2Model ----
(***************************************************************************)
(* A model of the shape rotation task generator (src/src/generator.py):    *)
(* the combinatorial task sampler, the task-pair builder with its optional *)
(* video, the animation frame synthesizer and the point rotation.          *)
(*                                                                         *)
(* Units.  Angles are kept in half degrees (22.5 degrees is 45), so that   *)
(* every catalog angle is an integer.  Local vertex coordinates are kept   *)
(* in thousandths of a pixel and cos/sin in thousandths (_rotate_points).  *)
(* An interpolated angle is the exact fraction <<numerator, denominator>>  *)
(* in lowest terms.                                                        *)
(***************************************************************************)
EXTENDS Integers, Sequences, FiniteSets, TLC

VARIABLES
    generated_combinations, \* self.generated_combinations: the keys seen so far
    emitted,                \* the keys of the tasks returned so far
    calls,                  \* the number of _generate_task_data calls made
    warnings,               \* the number of exhaustion warnings printed
    task,                   \* the outcome of the last _generate_task_data call
    path,                   \* the path the last call returned from
    attempts,               \* the random draws the last call made in its loop
    sampling,               \* the lookups of the last call: the draws that hit a
                            \* seen key and the candidates the scan inspected
    config,                 \* self.config: the fields the generator reads
    video_generator,        \* self.video_generator: "VideoGenerator" or "None"
    pair,                   \* the outcome of the last generate_task_pair call
    anim,                   \* the last _create_transformation_frames call
    geo                     \* the last _rotate_points call

vars == <<generated_combinations, emitted, calls, warnings, task, path,
          attempts, sampling, config, video_generator, pair, anim, geo>>

(***************************************************************************)
(* Bounds of the model.                                                    *)
(***************************************************************************)
\* The model's shape catalog is the first NumShapes names of the catalog.
NumShapes == 2

\* Calls made after the key space is exhausted.
MaxExtraCalls == 2

\* generate_task_pair calls made on one generator.
MaxPairCalls == 2

\* hold_frames and rotation_frames range over 0..MaxHold and 0..MaxRot.
MaxHold == 2
MaxRot == 3

\* The canvas is 8..8+MaxCanvasExtra pixels wide and high, the margin
\* 0..MaxMargin and the shape size 0..MaxShapeSize pixels.
MaxCanvasExtra == 1
MaxMargin == 1
MaxShapeSize == 3

\* The centers of the point rotation range over 0..MaxCenter in x and y.
MaxCenter == 1

(***************************************************************************)
(* The catalogs (TaskGenerator.__init__).                                  *)
(***************************************************************************)
ShapeCatalog ==
    << "square", "triangle", "diamond", "pentagon", "hexagon",
       "rectangle", "star", "heart", "arrow", "cross", "octagon",
       "trapezoid", "rhombus", "plus", "minus", "L_shape", "T_shape",
       "parallelogram", "kite", "chevron" >>

\* 15, 22.5, 30, ... 352.5 degrees, in half degrees.
AngleCatalog == [k \in 1..46 |-> 30 + 15 * (k - 1)]

base_shapes == SubSeq(ShapeCatalog, 1, NumShapes)

\* The model keeps two angles of the catalog, in catalog order: 15 degrees
\* and 187.5 degrees, one on each side of the half turn.
rotation_angles == <<AngleCatalog[1], AngleCatalog[24]>>

Range(s) == {s[i] : i \in DOMAIN s}

max_attempts == 1000

\* A variant of max_unique_combinations that also counts the pairs with
\* shape_a = shape_c.
max_unique_combinations_all_pairs ==
    Len(base_shapes) * Len(base_shapes) * Len(rotation_angles)

\* max_unique_combinations of _generate_task_data.
max_unique_combinations ==
    Len(base_shapes) * (Len(base_shapes) - 1) * Len(rotation_angles)

\* The numbers of draws hitting a seen key that the random source of a call
\* can start with: none, one, all but the last of the loop, all of the loop.
CollidingDraws == {0, 1, max_attempts - 1, max_attempts}

NoTask == [transformation_type |-> "none"]

NoSampling == [collisions |-> 0, inspected |-> 0]

(***************************************************************************)
(* Task data generation.                                                   *)
(***************************************************************************)
\* A variant of _generate_rotation_task that substitutes the shapes: B is
\* shape_c and D is shape_a.
_generate_rotation_task_substituted(shape_a, shape_c, rotation_angle) ==
    [ transformation_type |-> "rotation",
      shape_a |-> shape_a,
      shape_b |-> shape_c,
      shape_c |-> shape_c,
      shape_d |-> shape_a,
      rotation_angle |-> rotation_angle ]

_generate_rotation_task(shape_a, shape_c, rotation_angle) ==
    [ transformation_type |-> "rotation",
      shape_a |-> shape_a,
      shape_b |-> shape_a,
      shape_c |-> shape_c,
      shape_d |-> shape_c,
      rotation_angle |-> rotation_angle ]

\* random.sample(self.base_shapes, 2) and random.choice(self.rotation_angles):
\* two different positions of the shape list and one position of the angle list.
RandomDraws ==
    { <<base_shapes[i], base_shapes[j], rotation_angles[k]>> :
        <<i, j, k>> \in { d \in (DOMAIN base_shapes) \X (DOMAIN base_shapes)
                                   \X (DOMAIN rotation_angles) : d[1] # d[2] } }

\* The draws random.sample and random.choice hand to one call, in order, as
\* runs of equal draws: c draws of a seen key, then a key k for the rest of
\* max_attempts + 1 draws, one more than the loop can make.  Which seen key a
\* draw hits makes no difference to the loop, so one stands for all of them.
Streams(seen) ==
    { (IF c = 0 THEN << >>
       ELSE << [n |-> c, key |-> CHOOSE s \in seen : TRUE] >>)
        \o << [n |-> max_attempts + 1 - c, key |-> k] >> :
        c \in IF seen = {} THEN {0} ELSE CollidingDraws, k \in RandomDraws }

Min(a, b) == IF a <= b THEN a ELSE b

\* A variant of the loop that makes up to max_attempts + 1 draws.
RECURSIVE RandomLoopOneMore(_, _, _)
RandomLoopOneMore(stream, seen, done) ==
    IF done >= max_attempts + 1 \/ stream = << >>
    THEN [found |-> FALSE, key |-> << >>, attempts |-> done, collisions |-> 0]
    ELSE LET run == Head(stream)
         IN  IF run.key \notin seen
             THEN [found |-> TRUE, key |-> run.key, attempts |-> done + 1,
                   collisions |-> 0]
             ELSE LET n == Min(run.n, max_attempts + 1 - done)
                      rest == RandomLoopOneMore(Tail(stream), seen, done + n)
                  IN  [rest EXCEPT !.collisions = @ + n]

\* for attempt in range(max_attempts): draw a key and return it if it is not
\* seen.  done is the number of draws made before the head of the stream;
\* the result tells whether a draw was returned, at which attempt, and how
\* many draws hit a seen key.
RECURSIVE RandomLoop(_, _, _)
RandomLoop(stream, seen, done) ==
    IF done >= max_attempts \/ stream = << >>
    THEN [found |-> FALSE, key |-> << >>, attempts |-> done, collisions |-> 0]
    ELSE LET run == Head(stream)
         IN  IF run.key \notin seen
             THEN [found |-> TRUE, key |-> run.key, attempts |-> done + 1,
                   collisions |-> 0]
             ELSE LET n == Min(run.n, max_attempts - done)
                      rest == RandomLoop(Tail(stream), seen, done + n)
                  IN  [rest EXCEPT !.collisions = @ + n]

\* The candidates of the systematic scan, in scan order: shape_a in list order,
\* shape_c in list order without shape_a, the angle in list order.
RECURSIVE ScanFrom(_, _, _)
ScanFrom(i, j, k) ==
    IF i > Len(base_shapes) THEN << >>
    ELSE IF j > Len(base_shapes) THEN ScanFrom(i + 1, 1, 1)
    ELSE IF base_shapes[i] = base_shapes[j] THEN ScanFrom(i, j + 1, 1)
    ELSE IF k > Len(rotation_angles) THEN ScanFrom(i, j + 1, 1)
    ELSE << <<base_shapes[i], base_shapes[j], rotation_angles[k]>> >>
             \o ScanFrom(i, j, k + 1)

ScanOrder == ScanFrom(1, 1, 1)

\* A variant of FirstUnseen that takes the last candidate not yet seen.
LastUnseen(seen) ==
    LET unseen == {n \in DOMAIN ScanOrder : ScanOrder[n] \notin seen}
    IN  IF unseen = {} THEN 0
        ELSE CHOOSE n \in unseen : \A m \in unseen : n >= m

\* _generate_systematic_unique_combination: the first candidate not yet seen
\* is recorded and returned; with none left the RuntimeError is raised.
FirstUnseen(seen) ==
    LET unseen == {n \in DOMAIN ScanOrder : ScanOrder[n] \notin seen}
    IN  IF unseen = {} THEN 0
        ELSE CHOOSE n \in unseen : \A m \in unseen : n <= m

\* A variant of the scan that returns the key without recording it.
_generate_systematic_unique_combination_unrecorded ==
    LET n == FirstUnseen(generated_combinations)
    IN  IF n = 0
        THEN /\ task' = [transformation_type |-> "RuntimeError"]
             /\ UNCHANGED <<generated_combinations, emitted>>
        ELSE /\ UNCHANGED generated_combinations
             /\ emitted' = emitted \cup {ScanOrder[n]}
             /\ task' = _generate_rotation_task(ScanOrder[n][1],
                                                ScanOrder[n][2], ScanOrder[n][3])

_generate_systematic_unique_combination ==
    LET n == FirstUnseen(generated_combinations)
    IN  IF n = 0
        THEN /\ task' = [transformation_type |-> "RuntimeError"]
             /\ UNCHANGED <<generated_combinations, emitted>>
        ELSE /\ generated_combinations' =
                    generated_combinations \cup {ScanOrder[n]}
             /\ emitted' = emitted \cup {ScanOrder[n]}
             /\ task' = _generate_rotation_task(ScanOrder[n][1],
                                                ScanOrder[n][2], ScanOrder[n][3])

\* A variant of the loop that returns the first draw without looking it up.
RandomUniqueUnchecked(stream) ==
    /\ Cardinality(generated_combinations) < max_unique_combinations
    /\ LET key == Head(stream).key
       IN  /\ generated_combinations' = generated_combinations \cup {key}
           /\ emitted' = emitted \cup {key}
           /\ task' = _generate_rotation_task(key[1], key[2], key[3])
    /\ attempts' = 1
    /\ sampling' = NoSampling
    /\ path' = "random"
    /\ UNCHANGED warnings

\* The loop of _generate_task_data returns a drawn key.
RandomUnique(stream) ==
    /\ Cardinality(generated_combinations) < max_unique_combinations
    /\ LET loop == RandomLoop(stream, generated_combinations, 0)
       IN  /\ loop.found
           /\ generated_combinations' = generated_combinations \cup {loop.key}
           /\ emitted' = emitted \cup {loop.key}
           /\ task' = _generate_rotation_task(loop.key[1], loop.key[2], loop.key[3])
           /\ attempts' = loop.attempts
           /\ sampling' = [collisions |-> loop.collisions, inspected |-> 0]
    /\ path' = "random"
    /\ UNCHANGED warnings

\* The loop ends without a return: the systematic scan.
SystematicFallback(stream) ==
    /\ Cardinality(generated_combinations) < max_unique_combinations
    /\ LET loop == RandomLoop(stream, generated_combinations, 0)
           n == FirstUnseen(generated_combinations)
       IN  /\ ~ loop.found
           /\ attempts' = loop.attempts
           /\ sampling' = [collisions |-> loop.collisions,
                           inspected |-> IF n = 0 THEN Len(ScanOrder) ELSE n]
    /\ _generate_systematic_unique_combination
    /\ path' = "systematic"
    /\ UNCHANGED warnings

\* A variant of the exhausted branch that forgets the seen keys and starts a
\* new round with the key it returns.
WithReplacementReset(stream) ==
    /\ ~ (Cardinality(generated_combinations) < max_unique_combinations)
    /\ warnings' = warnings + 1
    /\ LET key == Head(stream).key
       IN  /\ task' = _generate_rotation_task(key[1], key[2], key[3])
           /\ emitted' = emitted \cup {key}
           /\ generated_combinations' = {key}
    /\ attempts' = 0
    /\ sampling' = NoSampling
    /\ path' = "replacement"

\* The key space is exhausted: warn, then sample with replacement.
WithReplacement(stream) ==
    /\ ~ (Cardinality(generated_combinations) < max_unique_combinations)
    /\ warnings' = IF Cardinality(generated_combinations) = max_unique_combinations
                   THEN warnings + 1 ELSE warnings
    /\ LET key == Head(stream).key
       IN  /\ task' = _generate_rotation_task(key[1], key[2], key[3])
           /\ emitted' = emitted \cup {key}
    /\ attempts' = 0
    /\ sampling' = NoSampling
    /\ path' = "replacement"
    /\ UNCHANGED generated_combinations

_generate_task_data ==
    /\ calls' = calls + 1
    /\ \E stream \in Streams(generated_combinations) :
          \/ RandomUnique(stream)
          \/ SystematicFallback(stream)
          \/ WithReplacement(stream)

(***************************************************************************)
(* Image rendering.  An image is the sequence of the draw calls made on    *)
(* it, in call order: slot A, arrow 1, slot B, slot C, arrow 2, slot D.    *)
(***************************************************************************)
RECURSIVE Gcd(_, _)
Gcd(a, b) == IF b = 0 THEN a ELSE Gcd(b, a % b)

\* The fraction n / d (n >= 0, d > 0) in lowest terms.
Frac(n, d) == <<n \div Gcd(n, d), d \div Gcd(n, d)>>

shape_color == <<70, 130, 180>>

_draw_rotated_shape(shape, x, y, size, color, rotation_angle) ==
    [ op |-> "shape", shape |-> shape, x |-> x, y |-> y, size |-> size,
      color |-> color, angle |-> rotation_angle ]

_draw_shape_at_position(shape, position, size, rotation_angle) ==
    _draw_rotated_shape(shape, position[1], position[2], size, shape_color,
                        rotation_angle)

_draw_arrow(cfg, position) ==
    [ op |-> "arrow", x |-> position[1], y |-> position[2],
      length |-> cfg.arrow_length ]

_draw_question_mark(cfg, position) ==
    [ op |-> "question", x |-> position[1], y |-> position[2],
      size |-> cfg.question_mark_size ]

InitialPositions(cfg) ==
    LET width == cfg.image_size[1]
        height == cfg.image_size[2]
        margin == cfg.margin
        shape_size == cfg.shape_size
    IN  [ A |-> <<margin + shape_size \div 2, height \div 4>>,
          arrow1 |-> <<width \div 2, height \div 4>>,
          B |-> <<width - margin - shape_size \div 2, height \div 4>>,
          C |-> <<margin + shape_size \div 2, (3 * height) \div 4>>,
          arrow2 |-> <<width \div 2, (3 * height) \div 4>>,
          question |-> <<width - margin - shape_size \div 2, (3 * height) \div 4>> ]

_render_initial_state(cfg, task_data) ==
    LET positions == InitialPositions(cfg)
        shape_size == cfg.shape_size
        rotation_angle == Frac(task_data.rotation_angle, 1)
    IN  << _draw_shape_at_position(task_data.shape_a, positions.A, shape_size, Frac(0, 1)),
           _draw_arrow(cfg, positions.arrow1),
           _draw_shape_at_position(task_data.shape_b, positions.B, shape_size, rotation_angle),
           _draw_shape_at_position(task_data.shape_c, positions.C, shape_size, Frac(0, 1)),
           _draw_arrow(cfg, positions.arrow2),
           _draw_question_mark(cfg, positions.question) >>

FinalPositions(cfg) ==
    LET width == cfg.image_size[1]
        height == cfg.image_size[2]
        margin == cfg.margin
        shape_size == cfg.shape_size
    IN  [ A |-> <<margin + shape_size \div 2, height \div 4>>,
          arrow1 |-> <<width \div 2, height \div 4>>,
          B |-> <<width - margin - shape_size \div 2, height \div 4>>,
          C |-> <<margin + shape_size \div 2, (3 * height) \div 4>>,
          arrow2 |-> <<width \div 2, (3 * height) \div 4>>,
          D |-> <<width - margin - shape_size \div 2, (3 * height) \div 4>> ]

_render_final_state(cfg, task_data) ==
    LET positions == FinalPositions(cfg)
        shape_size == cfg.shape_size
        rotation_angle == Frac(task_data.rotation_angle, 1)
    IN  << _draw_shape_at_position(task_data.shape_a, positions.A, shape_size, Frac(0, 1)),
           _draw_arrow(cfg, positions.arrow1),
           _draw_shape_at_position(task_data.shape_b, positions.B, shape_size, rotation_angle),
           _draw_shape_at_position(task_data.shape_c, positions.C, shape_size, Frac(0, 1)),
           _draw_arrow(cfg, positions.arrow2),
           _draw_shape_at_position(task_data.shape_d, positions.D, shape_size, rotation_angle) >>

(***************************************************************************)
(* Video generation.                                                       *)
(***************************************************************************)
\* A variant of MorphPositions whose left column halves margin + shape_size
\* instead of shape_size alone.
MorphPositionsHalvedMargin(cfg) ==
    LET width == cfg.image_size[1]
        height == cfg.image_size[2]
        margin == cfg.margin
        shape_size == cfg.shape_size
    IN  [ A |-> <<(margin + shape_size) \div 2, height \div 4>>,
          arrow1 |-> <<width \div 2, height \div 4>>,
          B |-> <<width - margin - shape_size \div 2, height \div 4>>,
          C |-> <<(margin + shape_size) \div 2, (3 * height) \div 4>>,
          arrow2 |-> <<width \div 2, (3 * height) \div 4>> ]

MorphPositions(cfg) ==
    LET width == cfg.image_size[1]
        height == cfg.image_size[2]
        margin == cfg.margin
        shape_size == cfg.shape_size
    IN  [ A |-> <<margin + shape_size \div 2, height \div 4>>,
          arrow1 |-> <<width \div 2, height \div 4>>,
          B |-> <<width - margin - shape_size \div 2, height \div 4>>,
          C |-> <<margin + shape_size \div 2, (3 * height) \div 4>>,
          arrow2 |-> <<width \div 2, (3 * height) \div 4>> ]

\* A variant of rotation_progress that divides by num_frames.
rotation_progress_over_count(i, num_frames) ==
    IF num_frames > 1 THEN <<i, num_frames>> ELSE <<1, 1>>

\* rotation_progress of frame i of num_frames, as <<numerator, denominator>>:
\* i / (num_frames - 1) if num_frames > 1 else 1.0.
rotation_progress(i, num_frames) ==
    IF num_frames > 1 THEN <<i, num_frames - 1>> ELSE <<1, 1>>

\* A variant of current_rotation that turns along the shortest circular path:
\* a target above 180 degrees is approached as target - 360 degrees.
current_rotation_shortest(target_rotation, i, num_frames) ==
    LET shortest == IF target_rotation > 360 THEN target_rotation - 720
                    ELSE target_rotation
    IN  Frac(shortest * rotation_progress(i, num_frames)[1],
             rotation_progress(i, num_frames)[2])

\* current_rotation = target_rotation * rotation_progress.
current_rotation(target_rotation, i, num_frames) ==
    Frac(target_rotation * rotation_progress(i, num_frames)[1],
         rotation_progress(i, num_frames)[2])

\* A variant of the loop body that draws slot B at the interpolated angle too.
MorphFrameAnimatedB(cfg, task_data, i, num_frames) ==
    LET width == cfg.image_size[1]
        height == cfg.image_size[2]
        margin == cfg.margin
        shape_size == cfg.shape_size
        answer_x == width - margin - shape_size \div 2
        answer_y == (3 * height) \div 4
        positions == MorphPositions(cfg)
    IN  << _draw_shape_at_position(task_data.shape_a, positions.A, shape_size, Frac(0, 1)),
           _draw_arrow(cfg, positions.arrow1),
           _draw_shape_at_position(task_data.shape_b, positions.B, shape_size,
                                   current_rotation(task_data.rotation_angle, i, num_frames)),
           _draw_shape_at_position(task_data.shape_c, positions.C, shape_size, Frac(0, 1)),
           _draw_arrow(cfg, positions.arrow2),
           _draw_rotated_shape(task_data.shape_c, answer_x, answer_y, shape_size,
                               shape_color,
                               current_rotation(task_data.rotation_angle, i, num_frames)) >>

\* The body of the loop of _create_rotation_morph_frames, for frame i.
MorphFrame(cfg, task_data, i, num_frames) ==
    LET width == cfg.image_size[1]
        height == cfg.image_size[2]
        margin == cfg.margin
        shape_size == cfg.shape_size
        answer_x == width - margin - shape_size \div 2
        answer_y == (3 * height) \div 4
        positions == MorphPositions(cfg)
        static_rotation_angle == Frac(task_data.rotation_angle, 1)
    IN  << _draw_shape_at_position(task_data.shape_a, positions.A, shape_size, Frac(0, 1)),
           _draw_arrow(cfg, positions.arrow1),
           _draw_shape_at_position(task_data.shape_b, positions.B, shape_size,
                                   static_rotation_angle),
           _draw_shape_at_position(task_data.shape_c, positions.C, shape_size, Frac(0, 1)),
           _draw_arrow(cfg, positions.arrow2),
           _draw_rotated_shape(task_data.shape_c, answer_x, answer_y, shape_size,
                               shape_color,
                               current_rotation(task_data.rotation_angle, i, num_frames)) >>

\* for i in range(num_frames): frames.append(img)
_create_rotation_morph_frames(cfg, task_data, num_frames) ==
    [n \in 1..num_frames |-> MorphFrame(cfg, task_data, n - 1, num_frames)]

\* A variant of _create_transformation_frames that holds the final state one
\* frame short.
_create_transformation_frames_short(cfg, first_image, final_image, task_data, hold_frames, rotation_frames) ==
    [n \in 1..hold_frames |-> first_image]
      \o _create_rotation_morph_frames(cfg, task_data, rotation_frames)
      \o [n \in 1..(hold_frames - 1) |-> final_image]

_create_transformation_frames(cfg, first_image, final_image, task_data, hold_frames, rotation_frames) ==
    [n \in 1..hold_frames |-> first_image]
      \o _create_rotation_morph_frames(cfg, task_data, rotation_frames)
      \o [n \in 1..hold_frames |-> final_image]

\* The defaults of _create_transformation_frames.
default_hold_frames == 15
default_rotation_frames == 30

\* What video_generator.create_video_from_frames can return: a path, or None
\* on failure.
EncoderResults == {"None", "video.mp4"}

\* A variant of _generate_video that returns str(result) whatever the result.
_generate_video_str(cfg, first_image, final_image, task_data, result) ==
    LET frames == _create_transformation_frames(cfg, first_image, final_image,
                      task_data, default_hold_frames, default_rotation_frames)
    IN  [ frames |-> Len(frames),
          video_path |-> IF result # "None" THEN result ELSE "str(None)" ]

\* _generate_video: str(result) if result else None.
_generate_video(cfg, first_image, final_image, task_data, result) ==
    LET frames == _create_transformation_frames(cfg, first_image, final_image,
                      task_data, default_hold_frames, default_rotation_frames)
    IN  [ frames |-> Len(frames),
          video_path |-> IF result # "None" THEN result ELSE "None" ]

(***************************************************************************)
(* Geometry.  A local coordinate is an integer number of thousandths of a  *)
(* pixel; cos and sin are integers in thousandths; a pixel coordinate is   *)
(* an integer.                                                             *)
(***************************************************************************)
Unit == 1000

\* cos of the angles of the first quadrant the generator uses, in thousandths,
\* by the angle in half degrees.
CosTable ==
    (0 :> 1000) @@ (15 :> 991) @@ (30 :> 966) @@ (36 :> 951) @@ (45 :> 924)
    @@ (60 :> 866) @@ (72 :> 809) @@ (75 :> 793) @@ (90 :> 707)
    @@ (105 :> 609) @@ (108 :> 588) @@ (120 :> 500) @@ (135 :> 383)
    @@ (144 :> 309) @@ (150 :> 259) @@ (165 :> 131) @@ (180 :> 0)

\* math.cos and math.sin of an angle given in half degrees.
Cos(a) ==
    LET r == a % 720
    IN  IF r <= 180 THEN CosTable[r]
        ELSE IF r <= 360 THEN - CosTable[360 - r]
        ELSE IF r <= 540 THEN - CosTable[r - 360]
        ELSE CosTable[720 - r]

Sin(a) == Cos(a - 180)

\* int(): truncation toward zero of n / d, d > 0.
int(n, d) == IF n >= 0 THEN n \div d ELSE - ((- n) \div d)

\* The regular constructions: radius * (cos, sin) at i * step + offset for
\* i in range(count); the radius in pixels, the angles in half degrees. The
\* vertices are as exact as the cos table.
Polygon(count, step, offset, radius) ==
    [n \in 1..count |->
        << radius * Cos((n - 1) * step + offset),
           radius * Sin((n - 1) * step + offset) >>]

\* The star alternates outer_radius = half_size and inner_radius =
\* half_size * 0.4.
Star(h) ==
    [n \in 1..10 |->
        IF (n - 1) % 2 = 0
        THEN << h * Cos((n - 1) * 72 - 180), h * Sin((n - 1) * 72 - 180) >>
        ELSE << int(h * 4 * Cos((n - 1) * 72 - 180), 10),
                int(h * 4 * Sin((n - 1) * 72 - 180), 10) >>]

\* The vertices list of each branch of _draw_rotated_shape, for half_size h.
Vertices(shape, h) ==
    LET u == h * Unit
    IN  CASE shape = "square" ->
               << <<-u, -u>>, <<u, -u>>, <<u, u>>, <<-u, u>> >>
          [] shape = "triangle" ->
               << <<0, -u>>, <<-u, u>>, <<u, u>> >>
          [] shape = "diamond" ->
               << <<0, -u>>, <<u, 0>>, <<0, u>>, <<-u, 0>> >>
          [] shape = "pentagon" -> Polygon(5, 144, -180, h)
          [] shape = "hexagon" -> Polygon(6, 120, 0, h)
          [] shape = "rectangle" ->
               LET rect_width == int(h * 1400, 1000) * Unit
                   rect_height == int(h * 700, 1000) * Unit
               IN  << <<-rect_width, -rect_height>>, <<rect_width, -rect_height>>,
                      <<rect_width, rect_height>>, <<-rect_width, rect_height>> >>
          [] shape = "star" -> Star(h)
          [] shape = "heart" ->
               << <<0, u>>, <<-(h * 700), 0>>, <<-(h * 300), -(h * 500)>>,
                  <<0, -(h * 200)>>, <<h * 300, -(h * 500)>>, <<h * 700, 0>> >>
          [] shape = "octagon" -> Polygon(8, 90, 0, h)
          [] shape = "trapezoid" ->
               LET top_width == h * 500
               IN  << <<-top_width, -u>>, <<top_width, -u>>, <<u, u>>, <<-u, u>> >>
          [] shape = "rhombus" ->
               << <<0, -u>>, <<h * 700, 0>>, <<0, u>>, <<-(h * 700), 0>> >>
          [] shape = "plus" ->
               LET t == h * 400
               IN  << <<-t, -u>>, <<t, -u>>, <<t, -t>>, <<u, -t>>, <<u, t>>,
                      <<t, t>>, <<t, u>>, <<-t, u>>, <<-t, t>>, <<-u, t>>,
                      <<-u, -t>>, <<-t, -t>> >>
          [] shape = "minus" ->
               LET t == h * 250
               IN  << <<-u, -t>>, <<u, -t>>, <<u, t>>, <<-u, t>> >>
          [] shape = "L_shape" ->
               LET t == h * 400
               IN  << <<-u, -u>>, <<-u + t, -u>>, <<-u + t, u - t>>,
                      <<u, u - t>>, <<u, u>>, <<-u, u>> >>
          [] shape = "T_shape" ->
               LET t == h * 400
               IN  << <<-u, -u>>, <<u, -u>>, <<u, -u + t>>, <<t \div 2, -u + t>>,
                      <<t \div 2, u>>, <<-(t \div 2), u>>, <<-(t \div 2), -u + t>>,
                      <<-u, -u + t>> >>
          [] shape = "parallelogram" ->
               LET skew == h * 300
               IN  << <<-u + skew, -u>>, <<u + skew, -u>>, <<u - skew, u>>,
                      <<-u - skew, u>> >>
          [] shape = "kite" ->
               << <<0, -u>>, <<h * 400, -(h * 200)>>, <<0, h * 600>>,
                  <<-(h * 400), -(h * 200)>> >>
          [] shape = "chevron" ->
               << <<-u, -(h * 500)>>, <<0, h * 500>>, <<u, -(h * 500)>>,
                  <<h * 600, -(h * 800)>>, <<0, h * 100>>,
                  <<-(h * 600), -(h * 800)>> >>
          [] shape = "arrow" ->
               << <<-u, -(h * 300)>>, <<h * 300, -(h * 300)>>, <<h * 300, -u>>,
                  <<u, 0>>, <<h * 300, u>>, <<h * 300, h * 300>>,
                  <<-u, h * 300>> >>
          [] shape = "cross" ->
               LET t == h * 300
               IN  << <<-t, -u>>, <<t, -u>>, <<t, -t>>, <<u, -t>>, <<u, t>>,
                      <<t, t>>, <<t, u>>, <<-t, u>>, <<-t, t>>, <<-u, t>>,
                      <<-u, -t>>, <<-t, -t>> >>

\* A variant of _rotate_points that rounds down (math.floor) instead of
\* truncating.
_rotate_points_floor(points, angle, center_x, center_y) ==
    LET cos_a == Cos(angle)
        sin_a == Sin(angle)
    IN  [n \in DOMAIN points |->
            LET px == points[n][1]
                py == points[n][2]
                rotated_x == px * cos_a - py * sin_a
                rotated_y == px * sin_a + py * cos_a
            IN  << (rotated_x + center_x * Unit * Unit) \div (Unit * Unit),
                   (rotated_y + center_y * Unit * Unit) \div (Unit * Unit) >>]

\* A variant of _rotate_points that truncates the rotated coordinate and adds
\* the center afterwards.
_rotate_points_trunc_first(points, angle, center_x, center_y) ==
    LET cos_a == Cos(angle)
        sin_a == Sin(angle)
    IN  [n \in DOMAIN points |->
            LET px == points[n][1]
                py == points[n][2]
                rotated_x == px * cos_a - py * sin_a
                rotated_y == px * sin_a + py * cos_a
            IN  << int(rotated_x, Unit * Unit) + center_x,
                   int(rotated_y, Unit * Unit) + center_y >>]

\* _rotate_points: each point rotated by the angle, translated to the center
\* and truncated to a pixel.
_rotate_points(points, angle, center_x, center_y) ==
    LET cos_a == Cos(angle)
        sin_a == Sin(angle)
    IN  [n \in DOMAIN points |->
            LET px == points[n][1]
                py == points[n][2]
                rotated_x == px * cos_a - py * sin_a
                rotated_y == px * sin_a + py * cos_a
            IN  << int(rotated_x + center_x * Unit * Unit, Unit * Unit),
                   int(rotated_y + center_y * Unit * Unit, Unit * Unit) >>]

\* The polygon _draw_rotated_shape hands to draw.polygon.
RotatedVertices(shape, x, y, size, rotation_angle) ==
    LET half_size == size \div 2
    IN  _rotate_points(Vertices(shape, half_size), rotation_angle, x, y)

(***************************************************************************)
(* The generator: construction and generate_task_pair.                     *)
(***************************************************************************)
Configs ==
    [ image_size : {8 + d : d \in 0..MaxCanvasExtra} \X {8 + d : d \in 0..MaxCanvasExtra},
      margin : 0..MaxMargin,
      shape_size : 0..MaxShapeSize,
      arrow_length : {4},
      question_mark_size : {4},
      generate_videos : BOOLEAN ]

DefaultConfig ==
    [ image_size |-> <<8, 8>>, margin |-> 1, shape_size |-> 2, arrow_length |-> 4,
      question_mark_size |-> 4, generate_videos |-> TRUE ]

NoPair == [task_id |-> 0, status |-> "none"]
NoAnim ==
    [ status |-> "none", first_image |-> << >>, final_image |-> << >>,
      frames |-> << >>, hold_frames |-> 0, rotation_frames |-> 0 ]
NoGeo == [status |-> "none"]

\* self.video_generator after __init__; is_available is what
\* VideoGenerator.is_available() answers.
NewVideoGenerator(cfg, is_available) ==
    IF cfg.generate_videos /\ is_available THEN "VideoGenerator" ELSE "None"

\* TaskGenerator.__init__ with the given config.
__init__(cfg, is_available) ==
    /\ config = cfg
    /\ video_generator = NewVideoGenerator(cfg, is_available)
    /\ generated_combinations = {}
    /\ emitted = {}
    /\ calls = 0
    /\ warnings = 0
    /\ task = NoTask
    /\ path = "none"
    /\ attempts = 0
    /\ sampling = NoSampling
    /\ pair = NoPair
    /\ anim = NoAnim
    /\ geo = NoGeo

\* PROMPTS: the key get_prompt looks the prompt list up under.
get_prompt(task_type) ==
    IF task_type \in {"default", "rotation"} THEN task_type ELSE "default"

generate_task_pair(task_id) ==
    /\ _generate_task_data
    /\ IF task'.transformation_type = "RuntimeError"
       THEN pair' = [task_id |-> task_id, status |-> "RuntimeError"]
       ELSE LET first_image == _render_initial_state(config, task')
                final_image == _render_final_state(config, task')
            IN  \/ /\ config.generate_videos /\ video_generator # "None"
                   /\ \E result \in EncoderResults :
                        pair' = [ task_id |-> task_id, status |-> "returned",
                                  prompt |-> get_prompt(task'.transformation_type),
                                  first_image |-> first_image,
                                  final_image |-> final_image,
                                  encoder |-> result,
                                  ground_truth_video |->
                                      _generate_video(config, first_image, final_image,
                                                      task', result).video_path ]
                \/ /\ ~ (config.generate_videos /\ video_generator # "None")
                   /\ pair' = [ task_id |-> task_id, status |-> "returned",
                                prompt |-> get_prompt(task'.transformation_type),
                                first_image |-> first_image,
                                final_image |-> final_image,
                                encoder |-> "not called",
                                ground_truth_video |-> "None" ]

(***************************************************************************)
(* The sampler: _generate_task_data called on a fresh generator.           *)
(***************************************************************************)
Init == __init__(DefaultConfig, TRUE)

SampleTask ==
    /\ calls < max_unique_combinations + MaxExtraCalls
    /\ _generate_task_data
    /\ UNCHANGED <<config, video_generator, pair, anim, geo>>

Next == SampleTask

Spec == Init /\ [][Next]_vars

(***************************************************************************)
(* The task pair: generate_task_pair on a generator that has sampled the   *)
(* first n keys of the scan order, for every n up to the whole key space.  *)
(***************************************************************************)
Prefix(n) == {ScanOrder[m] : m \in 1..n}

InitPair ==
    /\ \E gv \in BOOLEAN, is_available \in BOOLEAN :
          /\ config = [DefaultConfig EXCEPT !.generate_videos = gv]
          /\ video_generator = NewVideoGenerator(config, is_available)
    /\ \E n \in 0..max_unique_combinations :
          /\ generated_combinations = Prefix(n)
          /\ emitted = Prefix(n)
          /\ calls = n
    /\ warnings = 0
    /\ task = NoTask
    /\ path = "none"
    /\ attempts = 0
    /\ sampling = NoSampling
    /\ pair = NoPair
    /\ anim = NoAnim
    /\ geo = NoGeo

GenerateTaskPair ==
    /\ pair.task_id < MaxPairCalls
    /\ pair.status # "RuntimeError"
    /\ generate_task_pair(pair.task_id + 1)
    /\ UNCHANGED <<config, video_generator, anim, geo>>

NextPair == GenerateTaskPair

SpecPair == InitPair /\ [][NextPair]_vars

(***************************************************************************)
(* The animation: the two scenes and the frame sequence of one task.       *)
(***************************************************************************)
\* A generator of any config whose first _generate_task_data call has returned.
InitAnim ==
    /\ \E cfg \in Configs :
          /\ config = cfg
          /\ video_generator = NewVideoGenerator(cfg, TRUE)
    /\ \E key \in RandomDraws :
          /\ generated_combinations = {key}
          /\ emitted = {key}
          /\ task = _generate_rotation_task(key[1], key[2], key[3])
    /\ calls = 1
    /\ warnings = 0
    /\ path = "random"
    /\ attempts = 1
    /\ sampling = NoSampling
    /\ pair = NoPair
    /\ anim = NoAnim
    /\ geo = NoGeo

RenderInitialState ==
    /\ anim.status = "none"
    /\ anim' = [anim EXCEPT !.status = "initial",
                            !.first_image = _render_initial_state(config, task)]
    /\ UNCHANGED <<generated_combinations, emitted, calls, warnings, task, path,
                   attempts, sampling, config, video_generator, pair, geo>>

\* A variant of RenderFinalState that samples a task of its own and renders
\* that one.
RenderFinalStateResampling ==
    /\ anim.status = "initial"
    /\ _generate_task_data
    /\ anim' = [anim EXCEPT !.status = "final",
                            !.final_image = _render_final_state(config, task')]
    /\ UNCHANGED <<config, video_generator, pair, geo>>

RenderFinalState ==
    /\ anim.status = "initial"
    /\ anim' = [anim EXCEPT !.status = "final",
                            !.final_image = _render_final_state(config, task)]
    /\ UNCHANGED <<generated_combinations, emitted, calls, warnings, task, path,
                   attempts, sampling, config, video_generator, pair, geo>>

CreateTransformationFrames ==
    /\ anim.status = "final"
    /\ \E hold_frames \in 0..MaxHold, rotation_frames \in 0..MaxRot :
          anim' = [anim EXCEPT
                     !.status = "frames",
                     !.hold_frames = hold_frames,
                     !.rotation_frames = rotation_frames,
                     !.frames = _create_transformation_frames(config,
                                    anim.first_image, anim.final_image, task,
                                    hold_frames, rotation_frames)]
    /\ UNCHANGED <<generated_combinations, emitted, calls, warnings, task, path,
                   attempts, sampling, config, video_generator, pair, geo>>

NextAnim ==
    \/ RenderInitialState
    \/ RenderFinalState
    \/ CreateTransformationFrames

SpecAnim == InitAnim /\ [][NextAnim]_vars

(***************************************************************************)
(* The geometry: _draw_rotated_shape computing the polygon of one shape.   *)
(***************************************************************************)
\* 0 degrees (slots A and C) and every multiple of 7.5 degrees below 360.
GeoAngles == {15 * k : k \in 0..47}

\* A fresh generator and the arguments of one _draw_rotated_shape call.
InitGeo ==
    /\ config = DefaultConfig
    /\ video_generator = "VideoGenerator"
    /\ generated_combinations = {}
    /\ emitted = {}
    /\ calls = 0
    /\ warnings = 0
    /\ task = NoTask
    /\ path = "none"
    /\ attempts = 0
    /\ sampling = NoSampling
    /\ pair = NoPair
    /\ anim = NoAnim
    /\ \E shape \in Range(ShapeCatalog), size \in 0..MaxShapeSize,
          x \in 0..MaxCenter, y \in 0..MaxCenter, rotation_angle \in GeoAngles :
          geo = [ status |-> "called", shape |-> shape, x |-> x, y |-> y,
                  size |-> size, rotation_angle |-> rotation_angle,
                  vertices |-> << >>, rotated_vertices |-> << >> ]

DrawRotatedShape ==
    /\ geo.status = "called"
    /\ geo' = [geo EXCEPT
                 !.status = "drawn",
                 !.vertices = Vertices(geo.shape, geo.size \div 2),
                 !.rotated_vertices =
                     RotatedVertices(geo.shape, geo.x, geo.y, geo.size,
                                     geo.rotation_angle)]
    /\ UNCHANGED <<generated_combinations, emitted, calls, warnings, task, path,
                   attempts, sampling, config, video_generator, pair, anim>>

NextGeo == DrawRotatedShape

SpecGeo == InitGeo /\ [][NextGeo]_vars

(***************************************************************************)
(* generate_task_pair statement by statement: the task is sampled, then    *)
(* the two scenes and the frames are rendered from it, while a shape is    *)
(* rotated and drawn.  The generator has sampled the first n keys of the   *)
(* scan order before.                                                      *)
(***************************************************************************)
InitFrame ==
    /\ config = DefaultConfig
    /\ video_generator = NewVideoGenerator(DefaultConfig, TRUE)
    /\ \E n \in 0..max_unique_combinations :
          /\ generated_combinations = Prefix(n)
          /\ emitted = Prefix(n)
          /\ calls = n
    /\ warnings = 0
    /\ task = NoTask
    /\ path = "none"
    /\ attempts = 0
    /\ sampling = NoSampling
    /\ pair = NoPair
    /\ anim = [NoAnim EXCEPT !.status = "start"]
    /\ \E shape \in Range(base_shapes), rotation_angle \in Range(rotation_angles) :
          geo = [ status |-> "called", shape |-> shape, x |-> MaxCenter,
                  y |-> MaxCenter, size |-> DefaultConfig.shape_size,
                  rotation_angle |-> rotation_angle,
                  vertices |-> << >>, rotated_vertices |-> << >> ]

\* task_data = self._generate_task_data()
GenerateTaskData ==
    /\ anim.status = "start"
    /\ _generate_task_data
    /\ anim' = [anim EXCEPT !.status =
                   IF task'.transformation_type = "RuntimeError"
                   THEN "RuntimeError" ELSE "none"]
    /\ UNCHANGED <<config, video_generator, pair, geo>>

NextFrame ==
    \/ GenerateTaskData
    \/ RenderInitialState
    \/ RenderFinalState
    \/ CreateTransformationFrames
    \/ DrawRotatedShape

SpecFrame == InitFrame /\ [][NextFrame]_vars

(***************************************************************************)
(* Properties.                                                             *)
(***************************************************************************)
\* The key space: every ordered pair of different shapes with every angle.
KeySpace ==
    { k \in Range(base_shapes) \X Range(base_shapes) \X Range(rotation_angles) :
        k[1] # k[2] }

\* C1 (Spec): uniqueness. After k <= max_unique_combinations calls on a fresh
\* generator the k returned tasks carry k different keys, whichever path each
\* call returned from.
C1_Uniqueness ==
    calls <= max_unique_combinations => Cardinality(emitted) = calls

\* The whole key space was emitted without a repeat and the last key came
\* from the systematic scan.
C1_Witness ==
    /\ calls = max_unique_combinations
    /\ path = "systematic"
    /\ Cardinality(emitted) = max_unique_combinations

\* C2 (Spec): the exhaustion warning is printed exactly once in total, however
\* many calls follow the exhaustion of the key space.
C2_NoticeOnce ==
    /\ warnings <= 1
    /\ calls > max_unique_combinations => warnings = 1

\* C3 (Spec): exact exhaustion point. Each of the first max_unique_combinations
\* calls adds one new key of the key space and prints no warning; after exactly
\* that many calls the seen set is the whole key space; the next call prints
\* the warning.
C3_ExactExhaustion ==
    /\ calls <= max_unique_combinations =>
          /\ generated_combinations \subseteq KeySpace
          /\ Cardinality(generated_combinations) = calls
          /\ warnings = 0
    /\ calls = max_unique_combinations => generated_combinations = KeySpace
    /\ calls = max_unique_combinations + 1 =>
          /\ warnings = 1
          /\ path = "replacement"

\* The call after the last new key has printed the warning.
C3_Witness ==
    /\ calls = max_unique_combinations + 1
    /\ generated_combinations = KeySpace
    /\ warnings = 1

\* C4 (Spec): _generate_task_data never fails. Every call returns a task; the
\* RuntimeError of the systematic scan is never raised.
C4_NeverFails ==
    /\ task.transformation_type # "RuntimeError"
    /\ calls > 0 => task.transformation_type = "rotation"

\* The systematic scan was entered with one key left and returned it.
C4_Witness ==
    /\ path = "systematic"
    /\ Cardinality(generated_combinations) = max_unique_combinations
    /\ task.transformation_type = "rotation"

\* C5 (Spec): every returned task is well formed on every path: shape_b is
\* shape_a, shape_d is shape_c, the two shapes differ and are of the shape
\* catalog, the angle is of the angle catalog.
C5_WellFormed ==
    calls > 0 =>
        /\ task.transformation_type = "rotation"
        /\ task.shape_b = task.shape_a
        /\ task.shape_d = task.shape_c
        /\ task.shape_a # task.shape_c
        /\ task.shape_a \in Range(base_shapes)
        /\ task.shape_c \in Range(base_shapes)
        /\ task.rotation_angle \in Range(rotation_angles)

\* A task sampled with replacement: square, triangle, 187.5 degrees.
C5_Witness ==
    /\ path = "replacement"
    /\ task = [ transformation_type |-> "rotation", shape_a |-> "square",
                shape_b |-> "square", shape_c |-> "triangle",
                shape_d |-> "triangle", rotation_angle |-> 375 ]

\* Slot numbers of an image: the position of each draw call.
SlotA == 1
Arrow1 == 2
SlotB == 3
SlotC == 4
Arrow2 == 5
SlotD == 6

\* C6 (SpecAnim): frame-sequence structure. _create_transformation_frames
\* returns 2 * hold_frames + rotation_frames frames: hold_frames copies of the
\* initial image, the rotation_frames interpolated frames in increasing index
\* order, hold_frames copies of the final image; 60 frames for the defaults.
C6_FrameStructure ==
    anim.status = "frames" =>
        LET h == anim.hold_frames
            r == anim.rotation_frames
            f == anim.frames
        IN  /\ Len(_create_transformation_frames(config, anim.first_image,
                    anim.final_image, task, default_hold_frames,
                    default_rotation_frames)) = 60
            /\ Len(f) = 2 * h + r
            /\ \A n \in 1..h : f[n] = anim.first_image
            /\ \A n \in 1..h : f[h + r + n] = anim.final_image
            /\ \A i \in 0..(r - 1) :
                  /\ f[h + i + 1][SlotD].op = "shape"
                  \* the angle of frame i is target * i / (r - 1)
                  /\ r > 1 => f[h + i + 1][SlotD].angle[1] * (r - 1) =
                              task.rotation_angle * i * f[h + i + 1][SlotD].angle[2]

\* Two hold frames on each side of three interpolated frames.
C6_Witness ==
    /\ anim.status = "frames"
    /\ anim.hold_frames = 2
    /\ anim.rotation_frames = 3
    /\ Len(anim.frames) = 7

\* C7 (SpecAnim): animation endpoint match. With rotation_frames >= 1 the last
\* interpolated frame draws slot D exactly as the final scene does: the same
\* shape, anchor, size and angle.
C7_EndpointMatch ==
    (anim.status = "frames" /\ anim.rotation_frames >= 1) =>
        /\ anim.frames[anim.hold_frames + anim.rotation_frames][SlotD] =
              anim.final_image[SlotD]
        /\ anim.final_image[SlotD].shape = task.shape_c
        /\ anim.final_image[SlotD].angle = <<task.rotation_angle, 1>>

\* A sequence of three interpolated frames whose first differs from its last.
C7_Witness ==
    /\ anim.status = "frames"
    /\ anim.rotation_frames = 3
    /\ anim.frames[anim.hold_frames + 1][SlotD] # anim.final_image[SlotD]
    /\ anim.frames[anim.hold_frames + 3][SlotD] = anim.final_image[SlotD]

\* C8 (SpecAnim): static-slot invariance. Slot A (shape_a at 0 degrees), slot B
\* (shape_b at the target angle), slot C (shape_c at 0 degrees) and both arrows
\* are drawn identically in the initial scene, the final scene and every frame
\* of the sequence.
C8_StaticSlots ==
    anim.status = "frames" =>
        /\ anim.first_image[SlotA].shape = task.shape_a
        /\ anim.first_image[SlotA].angle = <<0, 1>>
        /\ anim.first_image[SlotB].shape = task.shape_b
        /\ anim.first_image[SlotB].angle = <<task.rotation_angle, 1>>
        /\ anim.first_image[SlotC].shape = task.shape_c
        /\ anim.first_image[SlotC].angle = <<0, 1>>
        /\ anim.first_image[Arrow1].op = "arrow"
        /\ anim.first_image[Arrow2].op = "arrow"
        /\ \A s \in {SlotA, Arrow1, SlotB, SlotC, Arrow2} :
              /\ anim.final_image[s] = anim.first_image[s]
              /\ \A n \in DOMAIN anim.frames :
                    anim.frames[n][s] = anim.first_image[s]

\* A sequence with hold frames in which slot D does vary between frames.
C8_Witness ==
    /\ anim.status = "frames"
    /\ anim.hold_frames >= 1
    /\ anim.rotation_frames >= 2
    /\ \E m, n \in DOMAIN anim.frames :
          anim.frames[m][SlotD] # anim.frames[n][SlotD]

\* C9 (SpecPair): graceful degradation. With no video generator, with videos
\* disabled, or with the encoder reporting failure, generate_task_pair returns
\* a task pair with both images and no video; no error reaches the caller.
C9_GracefulDegradation ==
    pair.status # "none" =>
        /\ pair.status = "returned"
        /\ pair.first_image = _render_initial_state(config, task)
        /\ pair.final_image = _render_final_state(config, task)
        /\ Len(pair.first_image) = 6
        /\ Len(pair.final_image) = 6
        /\ (\/ video_generator = "None"
            \/ ~ config.generate_videos
            \/ pair.encoder = "None") => pair.ground_truth_video = "None"

\* The encoder was called and reported failure; the pair was still returned.
C9_Witness ==
    /\ pair.status = "returned"
    /\ config.generate_videos
    /\ video_generator = "VideoGenerator"
    /\ pair.encoder = "None"
    /\ pair.ground_truth_video = "None"

\* Whether a local coordinate is a whole number of pixels.
WholePixel(p) == p % Unit = 0

\* C10 as stated (SpecGeo): rotation identity. At 0 degrees every output vertex
\* is exactly (px + cx, py + cy), also for local vertices that are not whole.
C10_ExactTranslation ==
    (geo.status = "drawn" /\ geo.rotation_angle = 0) =>
        \A n \in DOMAIN geo.vertices :
            /\ geo.rotated_vertices[n][1] * Unit = geo.vertices[n][1] + geo.x * Unit
            /\ geo.rotated_vertices[n][2] * Unit = geo.vertices[n][2] + geo.y * Unit

\* C10 as amended (SpecGeo): at 0 degrees no rotation is applied: every output
\* vertex is (px + cx, py + cy) with each coordinate truncated toward zero to a
\* pixel, which is the exact translation when px and py are whole.
C10_TruncatedTranslation ==
    (geo.status = "drawn" /\ geo.rotation_angle = 0) =>
        /\ Len(geo.rotated_vertices) = Len(geo.vertices)
        /\ \A n \in DOMAIN geo.vertices :
            LET sx == geo.vertices[n][1] + geo.x * Unit
                sy == geo.vertices[n][2] + geo.y * Unit
                tx == IF sx >= 0 THEN sx - (sx % Unit) ELSE sx + ((- sx) % Unit)
                ty == IF sy >= 0 THEN sy - (sy % Unit) ELSE sy + ((- sy) % Unit)
            IN  /\ geo.rotated_vertices[n][1] * Unit = tx
                /\ geo.rotated_vertices[n][2] * Unit = ty
                /\ WholePixel(geo.vertices[n][1]) =>
                      geo.rotated_vertices[n][1] * Unit = sx
                /\ WholePixel(geo.vertices[n][2]) =>
                      geo.rotated_vertices[n][2] * Unit = sy

\* A heart drawn unrotated whose vertex (-0.7 * half_size, 0) lands left of
\* the origin before truncation.
C10_Witness ==
    /\ geo.status = "drawn"
    /\ geo.rotation_angle = 0
    /\ geo.shape = "heart"
    /\ geo.x = 0
    /\ geo.vertices[2][1] < 0
    /\ ~ WholePixel(geo.vertices[2][1])
    /\ geo.rotated_vertices[2][1] = 0

\* The position of x in the list s.
Pos(s, x) == CHOOSE i \in DOMAIN s : s[i] = x

\* Whether key k comes before key l in the order: shape_a by its catalog
\* position, then shape_c by its catalog position, then the angle by its.
Before(k, l) ==
    LET a == Pos(base_shapes, k[1])
        c == Pos(base_shapes, k[2])
        g == Pos(rotation_angles, k[3])
        b == Pos(base_shapes, l[1])
        d == Pos(base_shapes, l[2])
        h == Pos(rotation_angles, l[3])
    IN  \/ a < b
        \/ a = b /\ c < d
        \/ a = b /\ c = d /\ g < h

FrameAngle(i) == anim.frames[anim.hold_frames + i + 1][SlotD].angle

\* C12 (SpecAnim): interpolation law. With rotation_frames > 1 the D angle of
\* interpolated frame i is target * i / (rotation_frames - 1): 0 in the first
\* frame, the target in the last, rising by equal steps and never outside
\* [0, target], also for a target above 180 degrees; with rotation_frames = 1
\* the one frame is at the target.
C12_InterpolationLaw ==
    anim.status = "frames" =>
        LET r == anim.rotation_frames
            t == task.rotation_angle
        IN  /\ r = 1 => FrameAngle(0) = <<t, 1>>
            /\ r > 1 =>
                  /\ FrameAngle(0) = <<0, 1>>
                  /\ FrameAngle(r - 1) = <<t, 1>>
                  /\ \A i \in 0..(r - 1) :
                        /\ FrameAngle(i)[2] > 0
                        /\ FrameAngle(i)[1] * (r - 1) = t * i * FrameAngle(i)[2]
                        /\ 0 <= FrameAngle(i)[1]
                        /\ FrameAngle(i)[1] <= t * FrameAngle(i)[2]
                  /\ \A i \in 0..(r - 2) :
                        (FrameAngle(i + 1)[1] * FrameAngle(i)[2]
                           - FrameAngle(i)[1] * FrameAngle(i + 1)[2]) * (r - 1)
                          = t * FrameAngle(i)[2] * FrameAngle(i + 1)[2]

\* Three interpolated frames toward 187.5 degrees: the middle one at 93.75.
C12_Witness ==
    /\ anim.status = "frames"
    /\ anim.rotation_frames = 3
    /\ task.rotation_angle = 375
    /\ FrameAngle(0) = <<0, 1>>
    /\ FrameAngle(1) = <<375, 2>>
    /\ FrameAngle(2) = <<375, 1>>

\* C13 (Spec): sampler-state invariant. The seen set holds only keys of the key
\* space and never more than max_unique_combinations of them; no call removes
\* a key; once the key space is exhausted a call leaves the set as it is and
\* still returns a task, whose key is then necessarily a seen one.
C13_SamplerState ==
    [][ /\ generated_combinations \subseteq KeySpace
        /\ generated_combinations' \subseteq KeySpace
        /\ Cardinality(generated_combinations') <= max_unique_combinations
        /\ generated_combinations \subseteq generated_combinations'
        /\ Cardinality(generated_combinations) = max_unique_combinations =>
              /\ generated_combinations' = generated_combinations
              /\ task'.transformation_type = "rotation"
              /\ <<task'.shape_a, task'.shape_c, task'.rotation_angle>>
                    \in generated_combinations'
      ]_vars

\* Two calls after exhaustion: the set is still the whole key space and the
\* task returned repeats one of its keys.
C13_Witness ==
    /\ calls = max_unique_combinations + 2
    /\ path = "replacement"
    /\ generated_combinations = KeySpace
    /\ Cardinality(generated_combinations) = max_unique_combinations
    /\ <<task.shape_a, task.shape_c, task.rotation_angle>> \in generated_combinations

\* q is the floor of n / d, for d > 0.
IsFloorDiv(q, n, d) == d * q <= n /\ n < d * q + d

\* The six draw calls of an image sit at the anchors of the A/B/C/D layout.
AtLayoutAnchors(img) ==
    LET width == config.image_size[1]
        height == config.image_size[2]
        margin == config.margin
        shape_size == config.shape_size
    IN  /\ IsFloorDiv(img[SlotA].x - margin, shape_size, 2)
        /\ IsFloorDiv(img[SlotA].y, height, 4)
        /\ IsFloorDiv(img[Arrow1].x, width, 2)
        /\ IsFloorDiv(img[Arrow1].y, height, 4)
        /\ IsFloorDiv(width - margin - img[SlotB].x, shape_size, 2)
        /\ IsFloorDiv(img[SlotB].y, height, 4)
        /\ IsFloorDiv(img[SlotC].x - margin, shape_size, 2)
        /\ IsFloorDiv(img[SlotC].y, 3 * height, 4)
        /\ IsFloorDiv(img[Arrow2].x, width, 2)
        /\ IsFloorDiv(img[Arrow2].y, 3 * height, 4)
        /\ IsFloorDiv(width - margin - img[SlotD].x, shape_size, 2)
        /\ IsFloorDiv(img[SlotD].y, 3 * height, 4)

\* C14 (SpecAnim): layout identity. For every canvas, margin and shape_size the
\* initial scene, the final scene and every animation frame place A, arrow1,
\* B, C and arrow2 at the same floor-division anchors, and the question mark,
\* shape D and the animated answer shape all sit at
\* (width - margin - shape_size // 2, 3 * height // 4).
C14_LayoutIdentity ==
    anim.status = "frames" =>
        /\ AtLayoutAnchors(anim.first_image)
        /\ AtLayoutAnchors(anim.final_image)
        /\ anim.first_image[SlotD].op = "question"
        /\ anim.final_image[SlotD].op = "shape"
        /\ \A n \in DOMAIN anim.frames :
              /\ AtLayoutAnchors(anim.frames[n])
              /\ \A s \in {SlotA, Arrow1, SlotB, SlotC, Arrow2, SlotD} :
                    /\ anim.frames[n][s].x = anim.first_image[s].x
                    /\ anim.frames[n][s].y = anim.first_image[s].y
                    /\ anim.final_image[s].x = anim.first_image[s].x
                    /\ anim.final_image[s].y = anim.first_image[s].y

\* An odd canvas and an odd shape size, where the divisions round, with
\* interpolated frames in the sequence: the answer shape is at (7, 6).
C14_Witness ==
    /\ anim.status = "frames"
    /\ config.image_size = <<9, 9>>
    /\ config.margin = 1
    /\ config.shape_size = 3
    /\ anim.rotation_frames >= 2
    /\ anim.hold_frames = 0
    /\ anim.frames[1][SlotD].op = "shape"
    /\ anim.frames[1][SlotD].x = 7
    /\ anim.frames[1][SlotD].y = 6
    /\ anim.frames[1][SlotA].x = 2
    /\ anim.frames[1][SlotA].y = 2

\* t is n / d truncated toward zero, for d > 0.
IsTrunc(t, n, d) ==
    IF n >= 0 THEN d * t <= n /\ n < d * t + d
    ELSE d * t >= n /\ n > d * t - d

\* rx and ry of vertex n of the drawn shape, in units of 1 / Unit^2 pixel.
RotatedX(n) ==
    geo.vertices[n][1] * Cos(geo.rotation_angle)
      - geo.vertices[n][2] * Sin(geo.rotation_angle)

RotatedY(n) ==
    geo.vertices[n][1] * Sin(geo.rotation_angle)
      + geo.vertices[n][2] * Cos(geo.rotation_angle)

C16_BoundedSampling ==
    [][ (calls' = calls + 1
           /\ Cardinality(generated_combinations) < max_unique_combinations) =>
          /\ path' \in {"random", "systematic"}
          /\ attempts' >= 1
          /\ attempts' <= max_attempts
          /\ path' = "random" =>
                /\ <<task'.shape_a, task'.shape_c, task'.rotation_angle>>
                      \notin generated_combinations
                /\ sampling'.collisions = attempts' - 1
                /\ sampling'.inspected = 0
          /\ path' = "systematic" =>
                /\ attempts' = max_attempts
                /\ sampling'.collisions = max_attempts
                /\ generated_combinations # {}
                /\ sampling'.inspected >= 1
                /\ sampling'.inspected <= max_unique_combinations
                /\ task'.transformation_type = "rotation"
      ]_vars

\* All max_attempts draws hit a seen key and the scan went through the whole
\* key space to its last candidate.
C16_Witness ==
    /\ path = "systematic"
    /\ attempts = max_attempts
    /\ sampling.collisions = max_attempts
    /\ sampling.inspected = max_unique_combinations
    /\ task.transformation_type = "rotation"

\* The sampler state.
SamplerState == <<generated_combinations, emitted, calls, warnings>>

\* C17 (SpecFrame): frame conditions. Rendering a scene, creating the frames
\* and rotating points leave generated_combinations and the task data as they
\* are; while a task pair is built the sampler state changes in one step only,
\* the _generate_task_data step, which renders nothing and after which all the
\* rendering happens; the configuration is never changed.
C17_FrameConditions ==
    [][ /\ config' = config
        /\ ~ (anim.status = "start" /\ anim'.status = "none") =>
              /\ SamplerState' = SamplerState
              /\ task' = task
        /\ (anim.status = "start" /\ anim'.status = "none") =>
              /\ calls' = calls + 1
              /\ task'.transformation_type = "rotation"
              /\ anim'.first_image = << >>
              /\ anim'.final_image = << >>
              /\ anim'.frames = << >>
              /\ geo' = geo
        /\ anim'.status = "start" => anim.status = "start"
        /\ anim'.first_image # anim.first_image =>
              anim'.first_image[SlotA].shape = task.shape_a
        /\ anim'.final_image # anim.final_image =>
              anim'.final_image[SlotD].shape = task.shape_d
      ]_vars

\* A pair built to the end on a generator that had sampled one key: the one
\* sampling step added the second key, the frames were rendered and a shape
\* was rotated.
C17_Witness ==
    /\ anim.status = "frames"
    /\ anim.rotation_frames >= 2
    /\ geo.status = "drawn"
    /\ calls = 2
    /\ Cardinality(generated_combinations) = 2
    /\ anim.frames[1][SlotC].shape = task.shape_c

====
